---------------------------- MODULE Spec2Model ----------------------------
(***************************************************************************)
(* Prospector: signal scoring (extractors/patterns.py), ranking            *)
(* (scoring/ranker.py) and the pipeline that drives them (server.py, db.py)*)
(*                                                                         *)
(* Numbers.  The program computes in floating point.  The model computes   *)
(* the same expressions exactly, in integers:                              *)
(*   - a signal weight, a bonus, a category relevance and a ranking weight *)
(*     are held in hundredths (0.45 is 45, 0.05 is 5), WeightOne is 1.0;   *)
(*   - a sub-score is held in units of 1/ScoreOne, ScoreOne = 3000 being   *)
(*     a common multiple of the three normalisation constants (3.0, 2.5,   *)
(*     2.0, in hundredths 300, 250, 200) and of 100, so every division of  *)
(*     the program is exact in the model;                                  *)
(*   - final_score is held in units of 1/(ScoreOne * WeightOne).           *)
(***************************************************************************)
EXTENDS Integers, Sequences, FiniteSets, TLC

VARIABLES
    \* ---- one Ranker / PatternExtractor exercised directly ----
    prospects,      \* the list object handed to extract and rank (mutated in place)
    prevProspects,  \* the list as it was when the last call was entered
    ctorWeights,    \* the `weights` argument the ranker under test was constructed with
    selfWeights,    \* Ranker.weights of the ranker under test
    campaign,       \* the campaign token passed to extract and rank
    phase,          \* "new" -> "extracted" -> "ranked" -> "ranked2"
    \* ---- the server: the module-level ranker, the tasks, the database ----
    rankerWeights,  \* server.py ranker.weights, shared by every pipeline execution
    clock,          \* int(time.time())
    pc,             \* per task: position of the pipeline execution
    taskRunId,      \* per task: run_id
    taskAdapters,   \* per task: enabled_adapters
    taskOverrides,  \* per task: weight_overrides
    taskConfigs,    \* per task: the campaign set in adapter_configs for its adapters
    taskCb,         \* per task: whether a progress_cb was passed (the /ws/run path)
    taskIdx,        \* per task: index into enabled_adapters of the pending fetch
    taskProspects,  \* per task: all_prospects
    taskLog,        \* per task: log_entries
    startWeights,   \* per task: ranker.weights as left by line 42 of that execution
    usedWeights,    \* per task: the local `weights` Ranker.rank computed with
    dbRuns,         \* table runs: run id -> row
    dbProspects,    \* table prospects: set of rows
    dbNextId,       \* table prospects: the next AUTOINCREMENT id
    \* ---- GET /api/stats ----
    dailyCounts,    \* the daily_counts list handed to compute_pva
    pvaResult,      \* what compute_pva returned, Null before the call
    scoreDist,      \* score_distribution of get_stats_summary, Null before the call
    allProspects,   \* GET /api/prospects: the list get_all_prospects returned
    statsDone       \* which have been computed: "pva", "summary", "all"

coreVars == <<prospects, prevProspects, ctorWeights, selfWeights, campaign, phase>>

serverVars == <<rankerWeights, clock, pc, taskRunId, taskAdapters, taskOverrides,
                taskConfigs, taskCb,
                taskIdx, taskProspects, taskLog, startWeights, usedWeights,
                dbRuns, dbProspects, dbNextId>>

statsVars == <<dailyCounts, pvaResult, scoreDist, allProspects, statsDone>>

vars == <<coreVars, serverVars, statsVars>>

-----------------------------------------------------------------------------
(* Units *)

WeightOne == 100

ScoreOne == 3000

FinalOne == ScoreOne * WeightOne

Min(a, b) == IF a <= b THEN a ELSE b

-----------------------------------------------------------------------------
(* Signal catalogue: extractors/patterns.py *)

TRUST_GAP_SIGNALS ==
    ("no_company" :> 30) @@ ("few_public_repos" :> 40) @@ ("low_followers" :> 20) @@
    ("self_taught" :> 80) @@ ("career_changer" :> 70) @@ ("bootcamp_grad" :> 60) @@
    ("junior_level" :> 50) @@ ("bio_mentions_looking_for" :> 30) @@
    ("bio_mentions_open_to" :> 30) @@ ("bio_mentions_seeking" :> 30) @@
    ("bio_mentions_available" :> 20) @@ ("bio_mentions_laid_off" :> 60) @@
    ("freelance_available" :> 50) @@ ("build_in_public" :> 70) @@
    ("100_days_of_code" :> 60) @@ ("ai_prompt_engineer" :> 80) @@
    ("indie_hacker" :> 50) @@ ("web3" :> 40) @@ ("wants_remote" :> 30)

REACHABILITY_SIGNALS ==
    ("has_github" :> 30) @@ ("has_linkedin" :> 40) @@ ("has_website" :> 50) @@
    ("hireable_flag" :> 60) @@ ("bio_mentions_open_to" :> 40) @@
    ("bio_mentions_available" :> 50) @@ ("freelance_available" :> 50) @@
    ("build_in_public" :> 30)

GAMING_INFLUENCE_SIGNALS ==
    ("gaming_youtuber" :> 90) @@ ("gaming_streamer" :> 80) @@ ("gaming_reviewer" :> 80) @@
    ("gaming_blogger" :> 70) @@ ("gaming_retro" :> 60) @@ ("gaming_arcade" :> 70) @@
    ("gaming_browser" :> 80) @@ ("gaming_indiedev" :> 50) @@ ("has_game_repos" :> 30) @@
    ("active_in_gaming" :> 50) @@ ("show_hn_poster" :> 40) @@
    ("high_engagement_post" :> 50) @@ ("gaming_platform" :> 80) @@
    ("gaming_submission_target" :> 30) @@ ("game_portal" :> 60) @@
    ("game_review_site" :> 70) @@ ("game_aggregator" :> 50) @@ ("gaming_community" :> 50)

GAMING_REACHABILITY_SIGNALS ==
    ("has_github" :> 30) @@ ("has_website" :> 50) @@ ("gaming_platform" :> 60) @@
    ("game_portal" :> 50) @@ ("gaming_submission_target" :> 60) @@
    ("active_in_gaming" :> 30) @@ ("gaming_youtuber" :> 50) @@ ("gaming_streamer" :> 50) @@
    ("gaming_reviewer" :> 40) @@ ("gaming_blogger" :> 40) @@ ("show_hn_poster" :> 30)

GAMING_RELEVANCE_CATEGORIES ==
    ("Gaming YouTuber" :> 95) @@ ("Retro Gaming Streamer" :> 90) @@ ("Game Reviewer" :> 90) @@
    ("Gaming Content Creator" :> 85) @@ ("Browser Game Enthusiast" :> 85) @@
    ("Gaming Platform" :> 90) @@ ("Retro Enthusiast" :> 80) @@ ("Game Developer" :> 60) @@
    ("Indie Game Dev" :> 65) @@ ("Game Jam Participant" :> 60)

high_relevance_categories ==
    ("Self-Taught Developer" :> 90) @@ ("Career Changer" :> 85) @@
    ("Bootcamp Graduate" :> 80) @@ ("Build in Public" :> 90) @@
    ("AI/Prompt Engineer" :> 95) @@ ("100DaysOfCode" :> 85) @@
    ("Recently Laid Off" :> 70) @@ ("Freelancer" :> 75) @@ ("Junior Developer" :> 70) @@
    ("Job Seeker" :> 65) @@ ("Senior Developer" :> 50) @@ ("OSS Contributor" :> 70) @@
    ("Developer" :> 50) @@ ("Startup Hiring" :> 60)

\* TRUST_GAP_SIGNALS.get(signal, 0.1)
TrustGapDefault == 10

\* REACHABILITY_SIGNALS.get(signal, 0.0)
ReachabilityDefault == 0

\* GAMING_INFLUENCE_SIGNALS.get(signal, 0.05)
GamingInfluenceDefault == 5

\* GAMING_REACHABILITY_SIGNALS.get(signal, 0.0)
GamingReachabilityDefault == 0

\* high_relevance_categories.get(p.category, 0.5), GAMING_RELEVANCE_CATEGORIES.get(p.category, 0.5)
RelevanceDefault == 50

\* score / 3.0
TrustGapNorm == 300

\* score / 2.0
ReachabilityNorm == 200

\* score / 2.5
GamingInfluenceNorm == 250

\* raw_data bonuses of _score_reachability
GithubUrlBonus == 30

LinkedinUrlBonus == 30

WebsiteUrlBonus == 20

\* raw_data bonuses of _score_gaming_reachability
StoryUrlBonus == 20

ContactRoleBonus == 40

\* dict.get(key, default)
Get(table, key, default) == IF key \in DOMAIN table THEN table[key] ELSE default

\* score = 0.0; for signal in p.signals: score += table.get(signal, default)
RECURSIVE SignalSum(_, _, _)
SignalSum(table, default, signals) ==
    IF signals = <<>> THEN 0
    ELSE SignalSum(table, default, SubSeq(signals, 1, Len(signals) - 1))
         + Get(table, signals[Len(signals)], default)

\* if p.raw_data.get(key): score += bonus      (raw_data: the set of truthy keys)
Bonus(raw_data, key, bonus) == IF key \in raw_data THEN bonus ELSE 0

-----------------------------------------------------------------------------
(* PatternExtractor: extractors/patterns.py *)

\* a trust-gap sum that skips tags missing from the table
TrustGapRawKnownOnly(signals) == SignalSum(TRUST_GAP_SIGNALS, 0, signals)

\* a trust-gap sum that assigns where it should accumulate (score = for score +=)
TrustGapRawLastOnly(signals) ==
    IF signals = <<>> THEN 0
    ELSE Get(TRUST_GAP_SIGNALS, signals[Len(signals)], TrustGapDefault)

TrustGapRaw(signals) == SignalSum(TRUST_GAP_SIGNALS, TrustGapDefault, signals)

\* a reachability sum that gives an unknown tag the trust-gap default
ReachabilityRawDefaulted(signals) ==
    SignalSum(REACHABILITY_SIGNALS, TrustGapDefault, signals)

ReachabilityRaw(signals) == SignalSum(REACHABILITY_SIGNALS, ReachabilityDefault, signals)

GamingInfluenceRaw(signals) ==
    SignalSum(GAMING_INFLUENCE_SIGNALS, GamingInfluenceDefault, signals)

GamingReachabilityRaw(signals) ==
    SignalSum(GAMING_REACHABILITY_SIGNALS, GamingReachabilityDefault, signals)

\* a normalisation that forgets the clamp
NormalizeNoClamp(score, norm) == (score * ScoreOne) \div norm

\* min(score / norm, 1.0)
Normalize(score, norm) == Min((score * ScoreOne) \div norm, ScoreOne)

score_trust_gap(p) == Normalize(TrustGapRaw(p.signals), TrustGapNorm)

score_reachability(p) ==
    Normalize(ReachabilityRaw(p.signals)
                + Bonus(p.raw_data, "github_url", GithubUrlBonus)
                + Bonus(p.raw_data, "linkedin_url", LinkedinUrlBonus)
                + Bonus(p.raw_data, "website_url", WebsiteUrlBonus),
              ReachabilityNorm)

score_relevance(p) ==
    (Get(high_relevance_categories, p.category, RelevanceDefault) * ScoreOne) \div WeightOne

score_gaming_influence(p) == Normalize(GamingInfluenceRaw(p.signals), GamingInfluenceNorm)

score_gaming_reachability(p) ==
    Normalize(GamingReachabilityRaw(p.signals)
                + Bonus(p.raw_data, "story_url", StoryUrlBonus)
                + Bonus(p.raw_data, "contact_role", ContactRoleBonus),
              ReachabilityNorm)

score_gaming_relevance(p) ==
    (Get(GAMING_RELEVANCE_CATEGORIES, p.category, RelevanceDefault) * ScoreOne) \div WeightOne

\* a dispatch that takes every token but "memex" for the gaming campaign
ExtractOneGamingUnlessMemex(p, camp) ==
    IF camp # "memex"
    THEN [p EXCEPT !.trust_gap_score = score_gaming_influence(p),
                   !.reachability_score = score_gaming_reachability(p),
                   !.relevance_score = score_gaming_relevance(p)]
    ELSE [p EXCEPT !.trust_gap_score = score_trust_gap(p),
                   !.reachability_score = score_reachability(p),
                   !.relevance_score = score_relevance(p)]

\* the body of extract's loop, for one prospect
ExtractOne(p, camp) ==
    IF camp = "openarcade"
    THEN [p EXCEPT !.trust_gap_score = score_gaming_influence(p),
                   !.reachability_score = score_gaming_reachability(p),
                   !.relevance_score = score_gaming_relevance(p)]
    ELSE [p EXCEPT !.trust_gap_score = score_trust_gap(p),
                   !.reachability_score = score_reachability(p),
                   !.relevance_score = score_relevance(p)]

\* PatternExtractor.extract(prospects, campaign)
extract(ps, camp) == [i \in 1..Len(ps) |-> ExtractOne(ps[i], camp)]

-----------------------------------------------------------------------------
(* Ranker: scoring/ranker.py *)

WeightKeys == {"trust_gap", "reachability", "relevance"}

MEMEX_WEIGHTS == ("trust_gap" :> 45) @@ ("reachability" :> 25) @@ ("relevance" :> 30)

OPENARCADE_WEIGHTS == ("trust_gap" :> 35) @@ ("reachability" :> 30) @@ ("relevance" :> 35)

\* an absent or empty dict (None and {} are both falsy)
NoDict == [k \in {} |-> 0]

\* Ranker.__init__: self.weights = weights or MEMEX_WEIGHTS.copy()
RankerInit(weights) == IF weights = NoDict THEN MEMEX_WEIGHTS ELSE weights

\* the local `weights` of Ranker.rank
RankWeights(self_weights, camp) ==
    IF camp = "openarcade" /\ self_weights = MEMEX_WEIGHTS
    THEN OPENARCADE_WEIGHTS
    ELSE self_weights

\* a final score that drops the relevance term
FinalScoreNoRelevance(p, weights) ==
    p.trust_gap_score * weights["trust_gap"]
    + p.reachability_score * weights["reachability"]

\* the expression assigned to p.final_score
FinalScore(p, weights) ==
    p.trust_gap_score * weights["trust_gap"]
    + p.reachability_score * weights["reachability"]
    + p.relevance_score * weights["relevance"]

\* for p in prospects: p.final_score = ...
SetFinalScores(ps, weights) ==
    [i \in 1..Len(ps) |-> [ps[i] EXCEPT !.final_score = FinalScore(ps[i], weights)]]

\* an insertion that puts p in front of the elements with an equal key
InsertDescBeforeEqual(sorted, p) ==
    LET keep == {i \in 1..Len(sorted) : sorted[i].final_score > p.final_score}
        n == Cardinality(keep)
    IN SubSeq(sorted, 1, n) \o <<p>> \o SubSeq(sorted, n + 1, Len(sorted))

\* where a stable descending sort places p among the already placed prefix:
\* behind every element whose key is not smaller
InsertDesc(sorted, p) ==
    LET keep == {i \in 1..Len(sorted) : sorted[i].final_score >= p.final_score}
        n == Cardinality(keep)
    IN SubSeq(sorted, 1, n) \o <<p>> \o SubSeq(sorted, n + 1, Len(sorted))

\* prospects.sort(key=lambda p: p.final_score, reverse=True): list.sort is stable,
\* and with reverse=True equal keys still keep their original order
RECURSIVE SortDesc(_)
SortDesc(ps) ==
    IF ps = <<>> THEN <<>>
    ELSE InsertDesc(SortDesc(SubSeq(ps, 1, Len(ps) - 1)), ps[Len(ps)])

\* Ranker.rank(prospects, campaign): the list after the call (also its return value)
rank(self_weights, ps, camp) == SortDesc(SetFinalScores(ps, RankWeights(self_weights, camp)))

\* a rank that stores the triple it picked back into self.weights
RankSelfAfterStored(self_weights, camp) == RankWeights(self_weights, camp)

\* self.weights after Ranker.rank: the method assigns nothing to it
RankSelfAfter(self_weights, camp) == self_weights

-----------------------------------------------------------------------------
(* Inputs *)

MaxSignals == 4

MaxList == 3

\* sequences over S of length at most n
SeqsUpTo(S, n) == UNION {[1..k -> S] : k \in 0..n}

\* adapters/base.py Prospect: the fields scoring reads or writes; scores default to 0.0
NewProspect(source, username, category, signals, raw_data) ==
    [source |-> source, username |-> username, category |-> category,
     signals |-> signals, raw_data |-> raw_data,
     trust_gap_score |-> 0, reachability_score |-> 0, relevance_score |-> 0,
     final_score |-> 0]

\* tags: known to the trust-gap table only, to both default tables, to both gaming
\* tables, and to no table (x_twitter.py emits tech_* tags)
ScoreTags == {"self_taught", "bio_mentions_open_to", "gaming_youtuber", "tech_python"}

RawChoices == { {}, {"github_url", "linkedin_url", "website_url"},
                {"story_url", "contact_role"}, {"github_url", "contact_role"} }

Categories == {"Self-Taught Developer", "Gaming YouTuber", ""}

Campaigns == {"memex", "openarcade", "other"}

\* candidates ranked as lists
SampleCandidates ==
    << [category |-> "Self-Taught Developer",
        signals |-> <<"self_taught", "bio_mentions_open_to">>, raw_data |-> {}],
       [category |-> "Gaming YouTuber",
        signals |-> <<"gaming_youtuber">>, raw_data |-> {"story_url", "contact_role"}],
       [category |-> "", signals |-> <<>>, raw_data |-> {}] >>

\* weights arguments of Ranker(...): none, a triple with the memex values, another triple
WeightChoices ==
    { NoDict,
      ("trust_gap" :> 45) @@ ("reachability" :> 25) @@ ("relevance" :> 30),
      ("trust_gap" :> 60) @@ ("reachability" :> 30) @@ ("relevance" :> 10) }

-----------------------------------------------------------------------------
(* The server: server.py, db.py *)

MaxTasks == 2

MaxClock == 1

Tasks == 1..MaxTasks

\* adapters/__init__.py ADAPTERS: the registered keys
ADAPTERS == {"github", "hackernews", "x_twitter", "bootcamps", "gaming_platforms"}

\* the requests a trigger may carry: adapters, weights and the campaign that
\* adapter_configs sets for the adapters (absent: "memex")
RequestChoices ==
    { [adapters |-> <<"github">>, weights |-> NoDict, configs |-> "memex"],
      [adapters |-> <<"github">>,
       weights |-> ("trust_gap" :> 50) @@ ("reachability" :> 40), configs |-> "memex"],
      [adapters |-> <<"hackernews", "nosuch", "github">>,
       weights |-> ("relevance" :> 10), configs |-> "memex"] }

\* the messages a /ws/run client may send
WsConfigChoices ==
    { [adapters |-> <<"github">>, weights |-> ("relevance" :> 10), configs |-> "memex"],
      [adapters |-> <<"hackernews">>, weights |-> NoDict, configs |-> "openarcade"] }

\* the adapters whose fetch may raise
MayRaise == {"hackernews"}

\* what an adapter's fetch may return (when it does not raise)
FetchResults(adapter_key) ==
    IF adapter_key = "github"
    THEN { << NewProspect("github", "bob", "Developer", <<"no_company">>, {}),
              NewProspect("github", "alice", "Self-Taught Developer",
                          <<"self_taught", "bio_mentions_open_to">>, {"github_url"}) >> }
    ELSE { << NewProspect("hackernews", "carol", "Startup Hiring", <<"has_website">>, {}),
              NewProspect("hackernews", "carol", "Job Seeker",
                          <<"bio_mentions_seeking">>, {"website_url"}) >> }

\* what HackerNewsAdapter._fetch_gaming may return
GamingFetchResults(adapter_key) ==
    { << NewProspect(adapter_key, "dave", "Retro Enthusiast",
                     <<"active_in_gaming", "gaming_retro">>, {"story_url"}) >> }

\* adapter.fetch(adapter_config): config.get("campaign", "memex") picks the search
Fetch(adapter_key, camp) ==
    IF camp = "openarcade" THEN GamingFetchResults(adapter_key)
    ELSE FetchResults(adapter_key)

\* dict.update(other)
Update(d, other) ==
    [k \in (DOMAIN d) \cup (DOMAIN other) |-> IF k \in DOMAIN other THEN other[k] ELSE d[k]]

\* a column holding NULL
Null == "NULL"

\* db.save_run: INSERT OR REPLACE INTO runs, keyed by id
save_run(runs, run_id, status, started_at, finished_at, adapters_used, log, camp) ==
    [r \in (DOMAIN runs) \cup {run_id} |->
        IF r = run_id
        THEN [id |-> run_id, status |-> status, started_at |-> started_at,
              finished_at |-> finished_at, adapters_used |-> adapters_used,
              log |-> log, campaign |-> camp]
        ELSE runs[r]]

\* one INSERT OR REPLACE INTO prospects: the row of the same (run_id, source, username),
\* if any, is deleted and a row with a fresh id inserted; deep_profile is not written
InsertProspect(rows, next_id, run_id, p) ==
    {row \in rows : ~(row.run_id = run_id /\ row.source = p.source
                      /\ row.username = p.username)}
    \cup {[id |-> next_id, run_id |-> run_id, source |-> p.source,
           username |-> p.username, category |-> p.category, signals |-> p.signals,
           raw_data |-> p.raw_data, trust_gap_score |-> p.trust_gap_score,
           reachability_score |-> p.reachability_score,
           relevance_score |-> p.relevance_score, final_score |-> p.final_score,
           outreach_message |-> "", deep_profile |-> Null]}

\* db.save_prospects: one insert per prospect, in list order
RECURSIVE save_prospects(_, _, _, _)
save_prospects(rows, next_id, run_id, ps) ==
    IF ps = <<>> THEN rows
    ELSE InsertProspect(save_prospects(rows, next_id, run_id, SubSeq(ps, 1, Len(ps) - 1)),
                        next_id + Len(ps) - 1, run_id, ps[Len(ps)])

\* the index of the next enabled adapter at or after i that is registered
\* (`if adapter_key not in ADAPTERS: continue`), Len + 1 when the loop is over
RECURSIVE NextAdapter(_, _)
NextAdapter(enabled, i) ==
    IF i > Len(enabled) THEN i
    ELSE IF enabled[i] \in ADAPTERS THEN i
    ELSE NextAdapter(enabled, i + 1)

\* no pipeline execution under way, the module-level ranker as constructed
TasksIdle ==
    /\ rankerWeights = RankerInit(NoDict)
    /\ clock = 0
    /\ pc = [t \in Tasks |-> "idle"]
    /\ taskRunId = [t \in Tasks |-> Null]
    /\ taskAdapters = [t \in Tasks |-> <<>>]
    /\ taskOverrides = [t \in Tasks |-> NoDict]
    /\ taskConfigs = [t \in Tasks |-> "memex"]
    /\ taskCb = [t \in Tasks |-> FALSE]
    /\ taskIdx = [t \in Tasks |-> 0]
    /\ taskProspects = [t \in Tasks |-> <<>>]
    /\ taskLog = [t \in Tasks |-> <<>>]
    /\ startWeights = [t \in Tasks |-> NoDict]
    /\ usedWeights = [t \in Tasks |-> NoDict]

\* the tables as init_db creates them
DbEmpty ==
    /\ dbRuns = NoDict
    /\ dbProspects = {}
    /\ dbNextId = 1

ServerInit == TasksIdle /\ DbEmpty

CoreIdle ==
    /\ prospects = <<>>
    /\ prevProspects = <<>>
    /\ ctorWeights = NoDict
    /\ selfWeights = RankerInit(NoDict)
    /\ campaign = "memex"
    /\ phase = "new"

\* no statistics requested
StatsIdle ==
    /\ dailyCounts = <<>>
    /\ pvaResult = Null
    /\ scoreDist = Null
    /\ allProspects = <<>>
    /\ statsDone = {}

Init == ServerInit /\ CoreIdle /\ StatsIdle

\* time passes
Tick ==
    /\ clock < MaxClock
    /\ clock' = clock + 1
    /\ UNCHANGED <<rankerWeights, pc, taskRunId, taskAdapters, taskOverrides, taskConfigs, taskCb, taskIdx,
                   taskProspects, taskLog, startWeights, usedWeights,
                   dbRuns, dbProspects, dbNextId, coreVars, statsVars>>

\* what both triggers do: run_id = f"run_{int(time.time())}", save_run(run_id,
\* "running", time.time(), adapters_used=...), and _execute_pipeline is set going
Trigger(t, request, cb) ==
    /\ taskAdapters' = [taskAdapters EXCEPT ![t] = request.adapters]
    /\ taskOverrides' = [taskOverrides EXCEPT ![t] = request.weights]
    /\ taskConfigs' = [taskConfigs EXCEPT ![t] = request.configs]
    /\ taskCb' = [taskCb EXCEPT ![t] = cb]
    /\ dbRuns' = save_run(dbRuns, clock, "running", clock, Null,
                          request.adapters, <<>>, "memex")
    /\ taskRunId' = [taskRunId EXCEPT ![t] = clock]
    /\ pc' = [pc EXCEPT ![t] = "queued"]
    /\ UNCHANGED <<rankerWeights, clock, taskIdx, taskProspects, taskLog, startWeights,
                   usedWeights, dbProspects, dbNextId, coreVars, statsVars>>

\* POST /api/runs: trigger_run records the run and queues _execute_pipeline
TriggerRun(t) ==
    /\ pc[t] = "idle"
    /\ \A u \in Tasks : (u < t) => (pc[u] # "idle")   \* tasks are numbered in trigger order
    /\ \E request \in RequestChoices : Trigger(t, request, FALSE)

\* /ws/run: run_pipeline receives the config, records the run and awaits
\* _execute_pipeline with progress_cb = ws.send_json
TriggerWs(t) ==
    /\ pc[t] = "idle"
    /\ \A u \in Tasks : (u < t) => (pc[u] # "idle")
    /\ \E config \in WsConfigChoices : Trigger(t, config, TRUE)

\* _execute_pipeline from the end of the adapter loop to `await db.save_prospects`:
\* extractor.extract(all_prospects) and ranker.rank(all_prospects), without a
\* campaign argument, on the module-level ranker as it is at that moment
ExtractAndRank(t, all_prospects, weights_now) ==
    /\ taskProspects' = [taskProspects EXCEPT ![t] =
                            rank(weights_now, extract(all_prospects, "memex"), "memex")]
    /\ usedWeights' = [usedWeights EXCEPT ![t] = RankWeights(weights_now, "memex")]

\* _execute_pipeline from its first line to the first `await adapter.fetch`
StartPipeline(t) ==
    /\ pc[t] = "queued"
    /\ rankerWeights' = IF taskOverrides[t] # NoDict
                        THEN Update(rankerWeights, taskOverrides[t])
                        ELSE rankerWeights
    /\ startWeights' = [startWeights EXCEPT ![t] = rankerWeights']
    /\ taskLog' = [taskLog EXCEPT ![t] = <<>>]
    /\ LET first == NextAdapter(taskAdapters[t], 1)
       IN /\ taskIdx' = [taskIdx EXCEPT ![t] = first]
          /\ IF first <= Len(taskAdapters[t])
             THEN /\ pc' = [pc EXCEPT ![t] = "fetch"]
                  /\ taskProspects' = [taskProspects EXCEPT ![t] = <<>>]
                  /\ UNCHANGED usedWeights
             ELSE /\ pc' = [pc EXCEPT ![t] = "save"]
                  /\ ExtractAndRank(t, <<>>, rankerWeights')
    /\ UNCHANGED <<clock, taskRunId, taskAdapters, taskOverrides, taskConfigs, taskCb,
                   dbRuns, dbProspects, dbNextId, coreVars, statsVars>>

\* a variant that scores and ranks each adapter's list as it arrives
CollectedScored(all_prospects, raised, found) ==
    IF raised THEN all_prospects
    ELSE all_prospects \o rank(RankerInit(NoDict), extract(found, "memex"), "memex")

\* all_prospects.extend(prospects) in the try body; nothing when fetch raised
Collected(all_prospects, raised, found) ==
    IF raised THEN all_prospects ELSE all_prospects \o found

\* a variant that records only the adapters that returned
LogAfterFoundOnly(log, key, raised, found) ==
    IF raised THEN log
    ELSE Append(log, [adapter |-> key, kind |-> "found", count |-> Len(found)])

\* log_entries.append(...) in the try body and in the except handler
LogAfter(log, key, raised, found) ==
    Append(log, IF raised THEN [adapter |-> key, kind |-> "error", count |-> 0]
                ELSE [adapter |-> key, kind |-> "found", count |-> Len(found)])

\* the pending fetch returns a list or raises; the loop goes on to the next fetch,
\* or, after the last one, through extract and rank to `await db.save_prospects`
FetchDone(t) ==
    /\ pc[t] = "fetch"
    /\ LET key == taskAdapters[t][taskIdx[t]]
           following == NextAdapter(taskAdapters[t], taskIdx[t] + 1)
       IN \E raised \in {FALSE} \cup {r \in {TRUE} : key \in MayRaise},
             found \in Fetch(key, taskConfigs[t]) :
             LET all_prospects == Collected(taskProspects[t], raised, found)
             IN /\ taskLog' = [taskLog EXCEPT ![t] = LogAfter(@, key, raised, found)]
                /\ taskIdx' = [taskIdx EXCEPT ![t] = following]
                /\ IF following <= Len(taskAdapters[t])
                   THEN /\ taskProspects' = [taskProspects EXCEPT ![t] = all_prospects]
                        /\ UNCHANGED <<pc, usedWeights>>
                   ELSE /\ pc' = [pc EXCEPT ![t] = "save"]
                        /\ ExtractAndRank(t, all_prospects, rankerWeights)
    /\ UNCHANGED <<rankerWeights, clock, taskRunId, taskAdapters, taskOverrides, taskConfigs, taskCb,
                   startWeights, dbRuns, dbProspects, dbNextId, coreVars, statsVars>>

\* await db.save_prospects(run_id, all_prospects): one transaction
SaveProspects(t) ==
    /\ pc[t] = "save"
    /\ dbProspects' = save_prospects(dbProspects, dbNextId, taskRunId[t], taskProspects[t])
    /\ dbNextId' = dbNextId + Len(taskProspects[t])
    /\ pc' = [pc EXCEPT ![t] = "save_run"]
    /\ UNCHANGED <<rankerWeights, clock, taskRunId, taskAdapters, taskOverrides, taskConfigs, taskCb, taskIdx,
                   taskProspects, taskLog, startWeights, usedWeights, dbRuns, coreVars, statsVars>>

\* await db.save_run(run_id, "done", time.time(), time.time(), adapters_used, log);
\* the execution then returns and its locals are gone
SaveRunDone(t) ==
    /\ pc[t] = "save_run"
    /\ dbRuns' = save_run(dbRuns, taskRunId[t], "done", clock, clock,
                          taskAdapters[t], taskLog[t], "memex")
    /\ pc' = [pc EXCEPT ![t] = "done"]
    /\ taskIdx' = [taskIdx EXCEPT ![t] = 0]
    /\ taskProspects' = [taskProspects EXCEPT ![t] = <<>>]
    /\ taskLog' = [taskLog EXCEPT ![t] = <<>>]
    /\ startWeights' = [startWeights EXCEPT ![t] = NoDict]
    /\ usedWeights' = [usedWeights EXCEPT ![t] = NoDict]
    /\ UNCHANGED <<rankerWeights, clock, taskRunId, taskAdapters, taskOverrides, taskConfigs, taskCb,
                   dbProspects, dbNextId, coreVars, statsVars>>

\* the client of a /ws/run execution is gone and an awaited ws.send_json raises: the
\* run_started message (before _execute_pipeline is entered), or a progress_cb of
\* _execute_pipeline, all of which come before save_prospects; the exception leaves
\* _execute_pipeline and run_pipeline swallows it
CallbackRaises(t) ==
    /\ taskCb[t]
    /\ pc[t] \in {"queued", "fetch"}
    /\ \E entered \in BOOLEAN :
          rankerWeights' = IF pc[t] = "queued" /\ entered /\ taskOverrides[t] # NoDict
                           THEN Update(rankerWeights, taskOverrides[t])
                           ELSE rankerWeights
    /\ pc' = [pc EXCEPT ![t] = "aborted"]
    /\ taskIdx' = [taskIdx EXCEPT ![t] = 0]
    /\ taskProspects' = [taskProspects EXCEPT ![t] = <<>>]
    /\ taskLog' = [taskLog EXCEPT ![t] = <<>>]
    /\ startWeights' = [startWeights EXCEPT ![t] = NoDict]
    /\ usedWeights' = [usedWeights EXCEPT ![t] = NoDict]
    /\ UNCHANGED <<clock, taskRunId, taskAdapters, taskOverrides, taskConfigs, taskCb,
                   dbRuns, dbProspects, dbNextId, coreVars, statsVars>>

Next ==
    \/ Tick
    \/ \E t \in Tasks : TriggerRun(t)
    \/ \E t \in Tasks : StartPipeline(t)
    \/ \E t \in Tasks : FetchDone(t)
    \/ \E t \in Tasks : SaveProspects(t)
    \/ \E t \in Tasks : SaveRunDone(t)

Spec == Init /\ [][Next]_vars

\* the server with both triggers; an execution that can take a step takes it in
\* the end (the event loop runs every ready task, and every fetch returns or raises)
NextWs ==
    \/ Next
    \/ \E t \in Tasks : TriggerWs(t)
    \/ \E t \in Tasks : CallbackRaises(t)

SpecWs ==
    /\ Init
    /\ [][NextWs]_vars
    /\ \A t \in Tasks :
          /\ WF_vars(StartPipeline(t))
          /\ WF_vars(FetchDone(t))
          /\ WF_vars(SaveProspects(t))
          /\ WF_vars(SaveRunDone(t))

-----------------------------------------------------------------------------
(* The extractor and the ranker exercised directly *)

\* one candidate of any shape, scored and ranked by Ranker()
InitScore ==
    /\ \E sig \in SeqsUpTo(ScoreTags, MaxSignals), raw \in RawChoices, cat \in Categories :
          prospects = << NewProspect("core", 1, cat, sig, raw) >>
    /\ ctorWeights = NoDict

\* a list of sample candidates, ranked by Ranker(w)
InitRank ==
    /\ \E pick \in SeqsUpTo(1..Len(SampleCandidates), MaxList) :
          prospects = [i \in 1..Len(pick) |->
                          NewProspect("core", i, SampleCandidates[pick[i]].category,
                                      SampleCandidates[pick[i]].signals,
                                      SampleCandidates[pick[i]].raw_data)]
    /\ ctorWeights \in WeightChoices

InitCore ==
    /\ InitScore \/ InitRank
    /\ prevProspects = prospects
    /\ selfWeights = RankerInit(ctorWeights)
    /\ campaign \in Campaigns
    /\ phase = "new"
    /\ ServerInit
    /\ StatsIdle

\* extractor.extract(prospects, campaign)
Extract ==
    /\ phase = "new"
    /\ prevProspects' = prospects
    /\ prospects' = extract(prospects, campaign)
    /\ phase' = "extracted"
    /\ UNCHANGED <<ctorWeights, selfWeights, campaign, serverVars, statsVars>>

\* ranker.rank(prospects, campaign), a first and a second time
Rank ==
    /\ phase \in {"extracted", "ranked"}
    /\ prevProspects' = prospects
    /\ prospects' = rank(selfWeights, prospects, campaign)
    /\ selfWeights' = RankSelfAfter(selfWeights, campaign)
    /\ phase' = IF phase = "extracted" THEN "ranked" ELSE "ranked2"
    /\ UNCHANGED <<ctorWeights, campaign, serverVars, statsVars>>

NextCore == Extract \/ Rank

SpecCore == InitCore /\ [][NextCore]_vars

-----------------------------------------------------------------------------
(* Statistics: compute_pva (server.py) and get_stats_summary (db.py)       *)
(*                                                                         *)
(* A mean is kept exactly, as a fraction [num, den] with den > 0.          *)
(* round(x, 2) is the hundredth nearest to x, held as a number of          *)
(* hundredths (10.0 is 1000).  A mean of integer counts over 1..7 entries, *)
(* and a difference of two such means, is never half-way between two       *)
(* hundredths, so the tie rule of round() plays no part.                   *)
(***************************************************************************)

Max(a, b) == IF a >= b THEN a ELSE b

Frac(num, den) == [num |-> num, den |-> den]

\* a - b
FracSub(a, b) == Frac(a.num * b.den - b.num * a.den, a.den * b.den)

\* round(q, 2)
Round2(q) == (2 * 100 * q.num + q.den) \div (2 * q.den)

\* sum(x["count"] for x in daily_counts[lo-1:hi]): entries lo..hi, counted from 1
RECURSIVE SumCount(_, _, _)
SumCount(daily, lo, hi) ==
    IF hi < lo THEN 0 ELSE SumCount(daily, lo, hi - 1) + daily[hi].count

\* a running total that forgets what came before
CumulativeNoCarry(daily, k) == daily[k].count

\* `cumulative` after the k-th pass of the loop (k = i + 1)
Cumulative(daily, k) == SumCount(daily, 1, k)

\* a velocity that always divides by the full window
VelocityFullWindow(daily, k) == Frac(SumCount(daily, Max(1, k - 6), k), 7)

\* a velocity whose window is the last seven calendar days
VelocityCalendar(daily, k) ==
    LET first == CHOOSE j \in 1..k :
                    /\ daily[j].date > daily[k].date - 7
                    /\ \A h \in 1..(j - 1) : daily[h].date <= daily[k].date - 7
    IN Frac(SumCount(daily, first, k), k - first + 1)

\* sum(counts[max(0, i-6) : i+1]) / min(i+1, 7)
Velocity(daily, k) == Frac(SumCount(daily, Max(1, k - 6), k), Min(k, 7))

\* a previous velocity whose window starts one entry late
PrevVelocityLateStart(daily, k) ==
    IF k >= 2
    THEN Frac(SumCount(daily, Max(1, k - 6), k - 1), Min(k - 1, 7))
    ELSE Frac(0, 1)

\* a previous velocity that stands still at the first entry
PrevVelocitySameAtFirst(daily, k) ==
    IF k >= 2
    THEN Frac(SumCount(daily, Max(1, k - 7), k - 1), Min(k - 1, 7))
    ELSE Frac(daily[1].count, 1)

\* prev_velocity = 0; if i >= 1: sum(counts[max(0, i-7) : i]) / min(i, 7)
PrevVelocity(daily, k) ==
    IF k >= 2
    THEN Frac(SumCount(daily, Max(1, k - 7), k - 1), Min(k - 1, 7))
    ELSE Frac(0, 1)

\* the dict appended to `result` on the k-th pass
PvaEntry(daily, k) ==
    [date |-> daily[k].date,
     value |-> daily[k].count,
     cumulative |-> Cumulative(daily, k),
     velocity |-> Round2(Velocity(daily, k)),
     acceleration |-> Round2(FracSub(Velocity(daily, k), PrevVelocity(daily, k)))]

\* a summary read off the first entry
PvaSummaryFromFirst(result, cumulative) ==
    [position |-> cumulative,
     velocity |-> IF result # <<>> THEN result[1].velocity ELSE 0,
     acceleration |-> IF result # <<>> THEN result[1].acceleration ELSE 0,
     daily |-> result]

\* the dict compute_pva returns after the loop
PvaSummary(result, cumulative) ==
    [position |-> cumulative,
     velocity |-> IF result # <<>> THEN result[Len(result)].velocity ELSE 0,
     acceleration |-> IF result # <<>> THEN result[Len(result)].acceleration ELSE 0,
     daily |-> result]

\* compute_pva(daily_counts)
compute_pva(daily) ==
    IF daily = <<>>
    THEN [position |-> 0, velocity |-> 0, acceleration |-> 0, daily |-> <<>>]
    ELSE PvaSummary([k \in 1..Len(daily) |-> PvaEntry(daily, k)],
                    Cumulative(daily, Len(daily)))

BucketLabels == <<"0.0-0.2", "0.2-0.4", "0.4-0.6", "0.6-0.8", "0.8-1.0">>

\* a CASE whose comparisons are <= : a score on a boundary stays in the lower bucket
ScoreBucketClosedAbove(final_score) ==
    IF 5 * final_score <= 1 * FinalOne THEN BucketLabels[1]
    ELSE IF 5 * final_score <= 2 * FinalOne THEN BucketLabels[2]
    ELSE IF 5 * final_score <= 3 * FinalOne THEN BucketLabels[3]
    ELSE IF 5 * final_score <= 4 * FinalOne THEN BucketLabels[4]
    ELSE BucketLabels[5]

\* CASE WHEN final_score < 0.2 THEN '0.0-0.2' ... ELSE '0.8-1.0' END
ScoreBucket(final_score) ==
    IF 5 * final_score < 1 * FinalOne THEN BucketLabels[1]
    ELSE IF 5 * final_score < 2 * FinalOne THEN BucketLabels[2]
    ELSE IF 5 * final_score < 3 * FinalOne THEN BucketLabels[3]
    ELSE IF 5 * final_score < 4 * FinalOne THEN BucketLabels[4]
    ELSE BucketLabels[5]

\* SELECT bucket, COUNT(*) FROM prospects GROUP BY bucket ORDER BY bucket:
\* one entry per bucket that holds a row
score_distribution(rows) ==
    SelectSeq([b \in 1..Len(BucketLabels) |->
                  [bucket |-> BucketLabels[b],
                   count |-> Cardinality({row \in rows :
                                 ScoreBucket(row.final_score) = BucketLabels[b]})]],
              LAMBDA entry : entry.count > 0)

MaxDays == 8

MaxCount == 2

MaxRows == 3

\* daily lists of the examples: one day of 10, three days of 5, 3, 2
ExampleCounts == {<<10>>, <<5, 3, 2>>}

\* days between two entries: every day has rows, or only every third day has
DateSteps == {1, 3}

\* the rows get_daily_prospect_counts returns: one per date that has rows, by date
DailyCounts(counts, step) ==
    [k \in 1..Len(counts) |-> [date |-> k * step, count |-> counts[k]]]

\* final scores on, next to and between the bucket boundaries, and one above 1.0
\* (weights are not validated, so a weighted sum can exceed 1.0)
StoredScoreChoices ==
    {0, FinalOne \div 5 - 1, FinalOne \div 5, (2 * FinalOne) \div 5,
     (3 * FinalOne) \div 5, (4 * FinalOne) \div 5 - 1, (4 * FinalOne) \div 5,
     FinalOne, (6 * FinalOne) \div 5}

\* a list of daily counts to analyse, over an empty database
InitPva ==
    /\ \E counts \in SeqsUpTo(1..MaxCount, MaxDays) \cup ExampleCounts, step \in DateSteps :
          dailyCounts = DailyCounts(counts, step)
    /\ DbEmpty

\* a database holding one finished run and its candidates
InitHist ==
    /\ dailyCounts = <<>>
    /\ \E scores \in SeqsUpTo(StoredScoreChoices, MaxRows) :
          /\ dbProspects =
                save_prospects({}, 1, 0,
                    [k \in 1..Len(scores) |->
                        [NewProspect("stats", k, "", <<>>, {})
                            EXCEPT !.final_score = scores[k]]])
          /\ dbNextId = Len(scores) + 1
    /\ dbRuns = save_run(NoDict, 0, "done", 0, 0, <<>>, <<>>, "memex")

InitStats ==
    /\ InitPva \/ InitHist
    /\ pvaResult = Null
    /\ scoreDist = Null
    /\ allProspects = <<>>
    /\ statsDone = {}
    /\ TasksIdle
    /\ CoreIdle

\* get_stats: compute_pva(daily_prospects)
ComputePva ==
    /\ "pva" \notin statsDone
    /\ pvaResult' = compute_pva(dailyCounts)
    /\ statsDone' = statsDone \cup {"pva"}
    /\ UNCHANGED <<dailyCounts, scoreDist, allProspects, coreVars, serverVars>>

\* get_stats: db.get_stats_summary(), its score_distribution
GetStatsSummary ==
    /\ "summary" \notin statsDone
    /\ scoreDist' = score_distribution(dbProspects)
    /\ statsDone' = statsDone \cup {"summary"}
    /\ UNCHANGED <<dailyCounts, pvaResult, allProspects, coreVars, serverVars>>

NextStats == ComputePva \/ GetStatsSummary

SpecStats == InitStats /\ [][NextStats]_vars

-----------------------------------------------------------------------------
(* GET /api/prospects: db.get_all_prospects over the stored runs *)

MaxRuns == 2

\* the same username found on two sources
DbPairs == <<[source |-> "github", username |-> "bob"],
             [source |-> "hackernews", username |-> "bob"]>>

\* what a run may hold of a pair: no row (-1), or a row with one of three final scores
DbScoreChoices == {-1, FinalOne \div 5, FinalOne \div 2, (4 * FinalOne) \div 5}

\* the ranked list of a run that found the pairs with the scores f, best first
DbList(f) ==
    SortDesc(SelectSeq([k \in 1..Len(DbPairs) |->
                          [NewProspect(DbPairs[k].source, DbPairs[k].username, "", <<>>, {})
                              EXCEPT !.final_score = f[k]]],
                       LAMBDA p : p.final_score >= 0))

\* the number of candidates of the first r lists
RECURSIVE CountUpTo(_, _)
CountUpTo(lists, r) == IF r = 0 THEN 0 ELSE CountUpTo(lists, r - 1) + Len(lists[r])

\* table prospects after save_prospects(r, lists[r]) for the runs 1..r, in that order
RECURSIVE StoreRuns(_, _)
StoreRuns(lists, r) ==
    IF r = 0 THEN {}
    ELSE save_prospects(StoreRuns(lists, r - 1), 1 + CountUpTo(lists, r - 1), r, lists[r])

\* table runs after save_run for the runs 1..r, each done, started at second r
RECURSIVE DoneRuns(_)
DoneRuns(r) ==
    IF r = 0 THEN NoDict
    ELSE save_run(DoneRuns(r - 1), r, "done", r, r, <<>>, <<>>, "memex")

\* a variant that orders the subquery by ascending score
TopIdsAscending(rows) ==
    {p2.id : p2 \in {x \in rows : \A y \in rows : y.final_score >= x.final_score}}

\* SELECT id ... ORDER BY p2.final_score DESC LIMIT 1: the id the subquery may yield
\* over its rows, any of those with the highest score
TopIds(rows) ==
    {p2.id : p2 \in {x \in rows : \A y \in rows : y.final_score <= x.final_score}}

\* WHERE p2.source = p.source AND p2.username = p.username
SamePair(rows, p) == {p2 \in rows : p2.source = p.source /\ p2.username = p.username}

\* SELECT p.*, r.started_at as run_started_at ... JOIN runs r ON p.run_id = r.id
Joined(rows, runs) ==
    {p @@ ("run_started_at" :> runs[p.run_id].started_at) :
        p \in {q \in rows : q.run_id \in DOMAIN runs}}

\* ORDER BY p.final_score DESC: the lists that hold each row once, best first
OrderedByScore(rows) ==
    {result \in [1..Cardinality(rows) -> rows] :
        /\ \A m, n \in 1..Cardinality(rows) : (m # n) => (result[m] # result[n])
        /\ \A m, n \in 1..Cardinality(rows) :
              (m < n) => (result[m].final_score >= result[n].final_score)}

\* db.get_all_prospects: the lists the query may return; top is the row the subquery
\* yields for each pair
get_all_prospects(rows, runs) ==
    UNION { OrderedByScore(Joined({p \in rows : p.id = top[<<p.source, p.username>>]}, runs)) :
              top \in {f \in [{<<p.source, p.username>> : p \in rows} -> {p.id : p \in rows}] :
                          \A p \in rows : f[<<p.source, p.username>>] \in TopIds(SamePair(rows, p))} }

\* a database holding MaxRuns finished runs and their candidates
InitDb ==
    /\ \E scores \in [1..MaxRuns -> [1..Len(DbPairs) -> DbScoreChoices]] :
          LET lists == [r \in 1..MaxRuns |-> DbList(scores[r])]
          IN /\ dbProspects = StoreRuns(lists, MaxRuns)
             /\ dbNextId = 1 + CountUpTo(lists, MaxRuns)
    /\ dbRuns = DoneRuns(MaxRuns)
    /\ TasksIdle
    /\ CoreIdle
    /\ StatsIdle

\* GET /api/prospects
GetAllProspects ==
    /\ "all" \notin statsDone
    /\ \E result \in get_all_prospects(dbProspects, dbRuns) : allProspects' = result
    /\ statsDone' = statsDone \cup {"all"}
    /\ UNCHANGED <<dailyCounts, pvaResult, scoreDist, coreVars, serverVars>>

NextDb == GetAllProspects

SpecDb == InitDb /\ [][NextDb]_vars

-----------------------------------------------------------------------------
(* Properties of the extractor and the ranker, checked under SpecCore *)

Ranked == phase \in {"ranked", "ranked2"}

Indices(ps) == 1..Len(ps)

\* trust_gap*w1 + reachability*w2 + relevance*w3, written out
WeightedSum(p, w) ==
    p.trust_gap_score * w["trust_gap"] + p.reachability_score * w["reachability"]
    + p.relevance_score * w["relevance"]

\* where the prospect named u stands in ps
PosOf(ps, u) == CHOOSE k \in Indices(ps) : ps[k].username = u

\* p without its final score
SansFinal(p) == [p EXCEPT !.final_score = 0]

\* the tags of a signal list, each once, in order of first appearance
RECURSIVE Dedup(_)
Dedup(signals) ==
    IF signals = <<>> THEN <<>>
    ELSE LET front == Dedup(SubSeq(signals, 1, Len(signals) - 1))
             last == signals[Len(signals)]
         IN IF \E k \in 1..Len(front) : front[k] = last THEN front ELSE Append(front, last)

HasRepeat(signals) == \E i, j \in 1..Len(signals) : i < j /\ signals[i] = signals[j]

\* C4 (as claimed): a Ranker constructed with a custom triple W computes every
\* final_score with exactly W, whatever the campaign token.
C4_CustomWeightsVerbatim ==
    (Ranked /\ ctorWeights # NoDict) =>
        \A i \in Indices(prospects) :
            prospects[i].final_score = WeightedSum(prospects[i], ctorWeights)

\* C5: after extract and rank by a Ranker() with the campaign defaults, the three
\* sub-scores and the final score of every candidate lie in [0,1].
C5_ScoresInUnitInterval ==
    (Ranked /\ ctorWeights = NoDict) =>
        \A i \in Indices(prospects) :
            /\ prospects[i].trust_gap_score \in 0..ScoreOne
            /\ prospects[i].reachability_score \in 0..ScoreOne
            /\ prospects[i].relevance_score \in 0..ScoreOne
            /\ prospects[i].final_score \in 0..FinalOne

\* a candidate with repeated and unknown tags whose two summed scores both saturate
C5_Witness ==
    /\ phase = "ranked" /\ ctorWeights = NoDict /\ campaign = "openarcade"
    /\ \E i \in Indices(prospects) :
          /\ HasRepeat(prospects[i].signals)
          /\ \E k \in 1..Len(prospects[i].signals) : prospects[i].signals[k] = "tech_python"
          /\ prospects[i].trust_gap_score = ScoreOne
          /\ prospects[i].reachability_score = ScoreOne
          /\ prospects[i].final_score > 0

\* C6: rank sets every final_score to the weighted sum under one triple, and leaves
\* the list a permutation of its input with final_score non-increasing; an empty
\* list stays empty.
C6_RankSortsByWeightedSum ==
    (phase = "ranked") =>
        /\ Len(prospects) = Len(prevProspects)
        /\ \A k \in Indices(prevProspects) :
              \E i \in Indices(prospects) : SansFinal(prospects[i]) = SansFinal(prevProspects[k])
        /\ \A i, j \in Indices(prospects) :
              (i # j) => prospects[i].username # prospects[j].username
        /\ \E w \in {selfWeights, OPENARCADE_WEIGHTS} :
              \A i \in Indices(prospects) :
                  prospects[i].final_score = WeightedSum(prospects[i], w)
        /\ \A i, j \in Indices(prospects) :
              (i < j) => prospects[i].final_score >= prospects[j].final_score
        /\ (prevProspects = <<>>) => (prospects = <<>>)

\* a list of three that rank reorders
C6_Witness ==
    /\ phase = "ranked" /\ Len(prospects) = 3
    /\ prospects[1].username = 3
    /\ prospects[1].final_score > prospects[3].final_score

\* C7: candidates with equal final_score keep the relative order of the input.
C7_TiesKeepInputOrder ==
    Ranked =>
        \A i, j \in Indices(prospects) :
            (i < j /\ prospects[i].final_score = prospects[j].final_score) =>
                PosOf(prevProspects, prospects[i].username)
                    < PosOf(prevProspects, prospects[j].username)

\* two tied candidates that a higher-scoring later candidate has overtaken
C7_Witness ==
    /\ phase = "ranked" /\ Len(prospects) = 3
    /\ prospects[1].username = 3
    /\ prospects[2].final_score = prospects[3].final_score
    /\ prospects[2].username = 1 /\ prospects[3].username = 2

\* C8: a second rank of the returned list leaves order and scores as the first
\* call left them, and no rank call changes the ranker's weight triple.
C8_RankIdempotent ==
    [][ /\ (phase' = "ranked2") => (prospects' = prospects)
        /\ (phase' \in {"ranked", "ranked2"}) => (selfWeights' = selfWeights) ]_vars

\* a second call on a list holding a tie, under the campaign whose defaults differ
C8_Witness ==
    /\ phase = "ranked2" /\ campaign = "openarcade" /\ ctorWeights = NoDict
    /\ Len(prospects) = 3
    /\ prospects[1].final_score = prospects[2].final_score
    /\ prospects[2].final_score > prospects[3].final_score

\* what the i-th tag of p adds to the raw sum computed by Raw
Adds(Raw(_), signals, i) == Raw(SubSeq(signals, 1, i)) - Raw(SubSeq(signals, 1, i - 1))

\* C9 (as claimed): in each table of the selected campaign, a tag that is no key of
\* the table adds a strictly positive amount to that dimension's raw sum.
C9_UnknownTagAddsPositive ==
    (phase # "new") =>
        \A n \in Indices(prospects) :
            LET sig == prospects[n].signals
            IN \A i \in 1..Len(sig) :
                  IF campaign = "openarcade"
                  THEN /\ (sig[i] \notin DOMAIN GAMING_INFLUENCE_SIGNALS) =>
                              Adds(GamingInfluenceRaw, sig, i) > 0
                       /\ (sig[i] \notin DOMAIN GAMING_REACHABILITY_SIGNALS) =>
                              Adds(GamingReachabilityRaw, sig, i) > 0
                  ELSE /\ (sig[i] \notin DOMAIN TRUST_GAP_SIGNALS) =>
                              Adds(TrustGapRaw, sig, i) > 0
                       /\ (sig[i] \notin DOMAIN REACHABILITY_SIGNALS) =>
                              Adds(ReachabilityRaw, sig, i) > 0

\* C9 (amended): a tag that is no key of the trust-gap table adds 0.1, one that is
\* no key of the gaming influence table adds 0.05; a tag that is no key of a
\* reachability table adds nothing to the reachability sum.
C9_UnknownTagDefaults ==
    (phase # "new") =>
        \A n \in Indices(prospects) :
            LET sig == prospects[n].signals
            IN \A i \in 1..Len(sig) :
                  IF campaign = "openarcade"
                  THEN /\ (sig[i] \notin DOMAIN GAMING_INFLUENCE_SIGNALS) =>
                              Adds(GamingInfluenceRaw, sig, i) = 5
                       /\ (sig[i] \notin DOMAIN GAMING_REACHABILITY_SIGNALS) =>
                              Adds(GamingReachabilityRaw, sig, i) = 0
                  ELSE /\ (sig[i] \notin DOMAIN TRUST_GAP_SIGNALS) =>
                              Adds(TrustGapRaw, sig, i) = 10
                       /\ (sig[i] \notin DOMAIN REACHABILITY_SIGNALS) =>
                              Adds(ReachabilityRaw, sig, i) = 0

\* a candidate whose only tag is in no table: 0.1/3.0 of trust gap, no reachability
C9_Witness ==
    /\ phase = "extracted" /\ campaign = "memex" /\ Len(prospects) = 1
    /\ prospects[1].signals = <<"tech_python">>
    /\ prospects[1].raw_data = {}
    /\ prospects[1].trust_gap_score = 100
    /\ prospects[1].reachability_score = 0

\* C10 (as claimed): a candidate with a repeated tag gets the trust_gap_score and
\* reachability_score of the candidate with each tag listed once.
C10_SignalsScoredAsSet ==
    (phase # "new") =>
        \A n \in Indices(prospects) :
            LET p == prospects[n]
                once == ExtractOne([p EXCEPT !.signals = Dedup(p.signals)], campaign)
            IN /\ p.trust_gap_score = once.trust_gap_score
               /\ p.reachability_score = once.reachability_score

\* the tags of s, as a set
TagSet(s) == {s[i] : i \in 1..Len(s)}

\* the tags that carry a positive weight in a signal table of the campaign
WeightedTags(camp) ==
    IF camp = "openarcade"
    THEN {t \in DOMAIN GAMING_INFLUENCE_SIGNALS : GAMING_INFLUENCE_SIGNALS[t] > 0}
         \cup {t \in DOMAIN GAMING_REACHABILITY_SIGNALS : GAMING_REACHABILITY_SIGNALS[t] > 0}
    ELSE {t \in DOMAIN TRUST_GAP_SIGNALS : TRUST_GAP_SIGNALS[t] > 0}
         \cup {t \in DOMAIN REACHABILITY_SIGNALS : REACHABILITY_SIGNALS[t] > 0}

\* p with one more tag at the end of its signal list
WithTag(p, tag) == [p EXCEPT !.signals = Append(@, tag)]

\* C11: under either campaign, a candidate that gains a tag it did not have, the tag
\* carrying a positive weight in one of the campaign's tables, scores no lower in
\* trust_gap_score and no lower in reachability_score than it did without the tag.
C11_AddedTagNeverLowers ==
    (phase = "extracted") =>
        \A n \in Indices(prospects) :
            \A tag \in WeightedTags(campaign) \ TagSet(prospects[n].signals) :
                LET more == ExtractOne(WithTag(prospects[n], tag), campaign)
                IN /\ more.trust_gap_score >= prospects[n].trust_gap_score
                   /\ more.reachability_score >= prospects[n].reachability_score

\* a scored candidate with tags, below the clamp, that one more tag lifts in both scores
C11_Witness ==
    /\ phase = "extracted" /\ Len(prospects) = 1
    /\ prospects[1].signals # <<>>
    /\ \E tag \in WeightedTags(campaign) \ TagSet(prospects[1].signals) :
          LET more == ExtractOne(WithTag(prospects[1], tag), campaign)
          IN /\ more.trust_gap_score > prospects[1].trust_gap_score
             /\ more.reachability_score > prospects[1].reachability_score

\* C12: every campaign token but "openarcade", a token the program does not know
\* included, scores with the memex signal tables and the memex category table and,
\* on a ranker built without weights, ranks with 0.45/0.25/0.30; "openarcade" on
\* such a ranker scores with the gaming tables and ranks with 0.35/0.30/0.35.
C12_CampaignSelectsTables ==
    Ranked =>
        \A n \in Indices(prospects) :
            LET p == prospects[n]
            IN IF campaign = "openarcade"
               THEN (ctorWeights = NoDict) =>
                       /\ p.trust_gap_score = score_gaming_influence(p)
                       /\ p.reachability_score = score_gaming_reachability(p)
                       /\ p.relevance_score = score_gaming_relevance(p)
                       /\ p.final_score = WeightedSum(p, OPENARCADE_WEIGHTS)
               ELSE /\ p.trust_gap_score = score_trust_gap(p)
                    /\ p.reachability_score = score_reachability(p)
                    /\ p.relevance_score = score_relevance(p)
                    /\ (ctorWeights = NoDict) =>
                          p.final_score = WeightedSum(p, MEMEX_WEIGHTS)

\* an unknown token on a candidate that the two campaigns score differently
C12_Witness ==
    /\ phase = "ranked" /\ campaign = "other" /\ ctorWeights = NoDict
    /\ Len(prospects) = 1
    /\ score_trust_gap(prospects[1]) # score_gaming_influence(prospects[1])
    /\ score_relevance(prospects[1]) # score_gaming_relevance(prospects[1])
    /\ WeightedSum(prospects[1], MEMEX_WEIGHTS) # WeightedSum(prospects[1], OPENARCADE_WEIGHTS)

-----------------------------------------------------------------------------
(* Properties of the pipeline, checked under Spec *)

\* execution t has ranked its candidates and not yet returned
HasRanked(t) == pc[t] \in {"save", "save_run"}

\* C1 (as claimed): the final scores of an execution are computed with the triple
\* the ranker held when that execution had applied its own overrides, whatever
\* other executions start while it awaits a fetch.
C1_WeightsFixedAtStart ==
    \A t \in Tasks :
        HasRanked(t) =>
            /\ usedWeights[t] = startWeights[t]
            /\ \A i \in Indices(taskProspects[t]) :
                  taskProspects[t][i].final_score
                      = WeightedSum(taskProspects[t][i], startWeights[t])

\* no other execution changed the ranker between t's first line and its rank call
Undisturbed(t) == usedWeights[t] = startWeights[t]

\* C2 (as claimed): a run triggered without overrides is ranked with the campaign
\* default triple, whatever runs that started earlier supplied.
C2_NoOverridesMeansDefaults ==
    \A t \in Tasks :
        (HasRanked(t) /\ Undisturbed(t) /\ taskOverrides[t] = NoDict) =>
            /\ usedWeights[t] = MEMEX_WEIGHTS
            /\ \A i \in Indices(taskProspects[t]) :
                  taskProspects[t][i].final_score
                      = WeightedSum(taskProspects[t][i], MEMEX_WEIGHTS)

\* C3 (as claimed): every key a run's overrides do not supply is ranked at the
\* default value of the campaign being ranked (the pipeline ranks under memex).
C3_AbsentKeysTakeDefault ==
    \A t \in Tasks :
        (HasRanked(t) /\ Undisturbed(t) /\ taskOverrides[t] # NoDict) =>
            \A k \in WeightKeys \ DOMAIN taskOverrides[t] :
                usedWeights[t][k] = MEMEX_WEIGHTS[k]

-----------------------------------------------------------------------------
(* Properties of the statistics, checked under SpecStats *)

PvaDone == "pva" \in statsDone

Days == 1..Len(dailyCounts)

Abs(x) == IF x < 0 THEN -x ELSE x

\* the sum of the first k counts of the input
RECURSIVE RunningTotal(_)
RunningTotal(k) == IF k = 0 THEN 0 ELSE RunningTotal(k - 1) + dailyCounts[k].count

\* the sum of the n counts that end at entry k
TrailingSum(k, n) == RunningTotal(k) - RunningTotal(k - n)

\* v, a number of hundredths, is the hundredth nearest to num / den
NearestHundredth(v, num, den) == 2 * Abs(v * den - 100 * num) <= den

\* C13: compute_pva returns one daily entry per input entry, in input order, whose
\* cumulative is the sum of the counts up to and including that entry; the summary
\* position is the sum of all counts.
C13_CumulativeIsRunningSum ==
    PvaDone =>
        /\ Len(pvaResult.daily) = Len(dailyCounts)
        /\ \A k \in Days :
              /\ pvaResult.daily[k].date = dailyCounts[k].date
              /\ pvaResult.daily[k].value = dailyCounts[k].count
              /\ pvaResult.daily[k].cumulative = RunningTotal(k)
        /\ pvaResult.position = RunningTotal(Len(dailyCounts))

\* three days of 5, 3 and 2: cumulative 5, 8, 10 and position 10
C13_Witness ==
    /\ PvaDone /\ Len(dailyCounts) = 3
    /\ dailyCounts[1].count = 5 /\ dailyCounts[2].count = 3 /\ dailyCounts[3].count = 2
    /\ pvaResult.daily[2].cumulative = 8
    /\ pvaResult.daily[3].cumulative = 10
    /\ pvaResult.position = 10

\* C14: velocity[i] is the mean of the counts of the min(i+1, 7) entries that end at
\* entry i, rounded to two decimals; the velocity of the first entry is its count.
C14_VelocityIsTrailingMean ==
    PvaDone =>
        \A k \in Days :
            /\ NearestHundredth(pvaResult.daily[k].velocity,
                                TrailingSum(k, Min(k, 7)), Min(k, 7))
            /\ (k = 1) => (pvaResult.daily[k].velocity = 100 * dailyCounts[k].count)

\* eight days, 2 on the first and 1 on the others: the mean of seven is 8/7 = 1.14 on
\* day seven, and day eight's window has left the first day behind
C14_Witness ==
    /\ PvaDone /\ Len(dailyCounts) = 8
    /\ dailyCounts[1].count = 2
    /\ \A k \in 2..8 : dailyCounts[k].count = 1
    /\ pvaResult.daily[7].velocity = 114
    /\ pvaResult.daily[8].velocity = 100

\* C15: acceleration[i] is velocity[i] minus prior_velocity[i], the two taken before
\* rounding and the difference rounded to two decimals, where prior_velocity[i] is
\* the mean of the counts of the min(i, 7) entries that end at entry i-1, and 0 for
\* the first entry.
C15_AccelerationIsVelocityChange ==
    PvaDone =>
        \A k \in Days :
            LET n == Min(k, 7)
                m == Min(k - 1, 7)
            IN IF k = 1
               THEN NearestHundredth(pvaResult.daily[k].acceleration, TrailingSum(k, n), n)
               ELSE NearestHundredth(pvaResult.daily[k].acceleration,
                                     TrailingSum(k, n) * m - TrailingSum(k - 1, m) * n,
                                     n * m)

\* eight days, 2 on the first and 1 on the others: on day eight the velocity falls
\* from 8/7 to 1, an acceleration of -0.14
C15_Witness ==
    /\ PvaDone /\ Len(dailyCounts) = 8
    /\ dailyCounts[1].count = 2
    /\ \A k \in 2..8 : dailyCounts[k].count = 1
    /\ pvaResult.daily[8].acceleration = -14
    /\ pvaResult.daily[2].acceleration = -50

\* C16 (as claimed): the acceleration of the first daily entry is 0 whatever its count;
\* a single entry of count 10 gives velocity 10.0 and acceleration 0.0.
C16_FirstAccelerationZero ==
    (PvaDone /\ dailyCounts # <<>>) =>
        /\ pvaResult.daily[1].acceleration = 0
        /\ (Len(dailyCounts) = 1 /\ dailyCounts[1].count = 10) =>
              (pvaResult.velocity = 1000 /\ pvaResult.acceleration = 0)

\* C16 (amended): the acceleration of the first daily entry equals its velocity, which
\* is its count (the prior velocity is 0); a single entry of count 10 gives velocity
\* 10.0 and acceleration 10.0.
C16_FirstAccelerationIsCount ==
    (PvaDone /\ dailyCounts # <<>>) =>
        /\ pvaResult.daily[1].acceleration = 100 * dailyCounts[1].count
        /\ pvaResult.daily[1].acceleration = pvaResult.daily[1].velocity
        /\ (Len(dailyCounts) = 1 /\ dailyCounts[1].count = 10) =>
              (pvaResult.velocity = 1000 /\ pvaResult.acceleration = 1000)

\* the single entry of count 10, analysed
C16_Witness ==
    /\ PvaDone /\ Len(dailyCounts) = 1 /\ dailyCounts[1].count = 10
    /\ pvaResult.daily[1].velocity = 1000
    /\ pvaResult.daily[1].acceleration = 1000

\* C17: the summary position, velocity and acceleration are the last daily entry's
\* cumulative, velocity and acceleration; for the empty input compute_pva returns
\* position 0, velocity 0, acceleration 0 and an empty daily list.
C17_SummaryIsLastEntry ==
    PvaDone =>
        IF dailyCounts = <<>>
        THEN pvaResult = [position |-> 0, velocity |-> 0, acceleration |-> 0,
                          daily |-> <<>>]
        ELSE LET last == pvaResult.daily[Len(pvaResult.daily)]
             IN /\ pvaResult.position = last.cumulative
                /\ pvaResult.velocity = last.velocity
                /\ pvaResult.acceleration = last.acceleration

\* a list whose last entry differs from its first in velocity and in acceleration
C17_Witness ==
    /\ PvaDone /\ Len(dailyCounts) >= 2
    /\ pvaResult.daily[1].velocity # pvaResult.velocity
    /\ pvaResult.daily[1].acceleration # pvaResult.acceleration
    /\ pvaResult.position > pvaResult.daily[1].cumulative

\* the input with its dates replaced by consecutive days
Redated == [k \in Days |-> [date |-> k, count |-> dailyCounts[k].count]]

\* C18: the windows run over entries, not calendar days: the numbers compute_pva
\* returns are those it returns for the same counts on consecutive dates, and every
\* date comes back unchanged.
C18_WindowsOverEntries ==
    PvaDone =>
        LET plain == compute_pva(Redated)
        IN /\ Len(pvaResult.daily) = Len(plain.daily)
           /\ \A k \in Days :
                 /\ pvaResult.daily[k].date = dailyCounts[k].date
                 /\ pvaResult.daily[k].value = plain.daily[k].value
                 /\ pvaResult.daily[k].cumulative = plain.daily[k].cumulative
                 /\ pvaResult.daily[k].velocity = plain.daily[k].velocity
                 /\ pvaResult.daily[k].acceleration = plain.daily[k].acceleration
           /\ pvaResult.position = plain.position
           /\ pvaResult.velocity = plain.velocity
           /\ pvaResult.acceleration = plain.acceleration

\* eight entries three days apart: the window of the last holds seven entries that
\* span nineteen days
C18_Witness ==
    /\ PvaDone /\ Len(dailyCounts) = 8
    /\ dailyCounts[8].date - dailyCounts[2].date > 7
    /\ dailyCounts[2].count = 2
    /\ \A k \in 3..8 : dailyCounts[k].count = 1
    /\ pvaResult.daily[8].velocity = 114

SummaryDone == "summary" \in statsDone

\* the count the distribution reports for the b-th bucket, 0 when it has no entry
Reported(b) ==
    LET hits == {i \in 1..Len(scoreDist) : scoreDist[i].bucket = BucketLabels[b]}
    IN IF hits = {} THEN 0 ELSE scoreDist[CHOOSE i \in hits : TRUE].count

\* the stored rows whose score lies in [(b-1)/5, b/5), or in [4/5, 1] for b = 5
RowsInBucket(b) ==
    {row \in dbProspects :
        /\ 5 * row.final_score >= (b - 1) * FinalOne
        /\ IF b = 5 THEN row.final_score <= FinalOne
           ELSE 5 * row.final_score < b * FinalOne}

\* C19: the score distribution counts every stored candidate in exactly one bucket,
\* so the counts sum to the number of candidates; with every score in [0, 1] the
\* count of each bucket is the number of candidates in [0,0.2), [0.2,0.4), [0.4,0.6),
\* [0.6,0.8) and [0.8,1.0]: a score on a boundary counts in the higher bucket and
\* 1.0 in the last.
C19_HistogramPartition ==
    SummaryDone =>
        /\ \A i, j \in 1..Len(scoreDist) :
              (scoreDist[i].bucket = scoreDist[j].bucket) => (i = j)
        /\ Reported(1) + Reported(2) + Reported(3) + Reported(4) + Reported(5)
              = Cardinality(dbProspects)
        /\ (\A row \in dbProspects : row.final_score \in 0..FinalOne) =>
              \A b \in 1..5 : Reported(b) = Cardinality(RowsInBucket(b))

\* candidates scored just under 0.2, exactly 0.2 and exactly 1.0
C19_Witness ==
    /\ SummaryDone
    /\ {row.final_score : row \in dbProspects}
          = {FinalOne \div 5 - 1, FinalOne \div 5, FinalOne}
    /\ Reported(1) = 1 /\ Reported(2) = 1 /\ Reported(5) = 1

-----------------------------------------------------------------------------
(* Properties of the run table, checked under Spec *)

\* C20: a run's stored status only moves from 'running' to 'done': no step of the
\* server takes a run that is 'done' back to 'running'.
C20_DoneIsTerminal ==
    [][\A r \in DOMAIN dbRuns :
          (dbRuns[r].status = "done") => (dbRuns'[r].status = "done")]_vars

-----------------------------------------------------------------------------
(* Further properties of the pipeline and the run table, checked under Spec *)

Triggered(t) == pc[t] # "idle"

\* no other triggered task carries the run id of t
OwnRunId(t) ==
    \A u \in Tasks \ {t} : Triggered(u) => (taskRunId[u] # taskRunId[t])

\* C21: every trigger is given a run id that no other trigger has, another trigger
\* of the same clock second included.
C21_RunIdsDistinct ==
    \A t, u \in Tasks :
        (t # u /\ Triggered(t) /\ Triggered(u)) => (taskRunId[t] # taskRunId[u])

\* C30: the started_at a run was recorded with when it was triggered is the started_at
\* it has once the pipeline has marked it 'done'; completing a run changes status,
\* finished_at and log and nothing else.
C30_StartedAtKept ==
    [][\A t \in Tasks :
          (pc[t] = "save_run" /\ pc'[t] = "done" /\ OwnRunId(t)) =>
              LET before == dbRuns[taskRunId[t]]
                  after == dbRuns'[taskRunId[t]]
              IN /\ after.id = before.id
                 /\ after.started_at = before.started_at
                 /\ after.adapters_used = before.adapters_used
                 /\ after.campaign = before.campaign]_vars

-----------------------------------------------------------------------------
(* The worked example, checked under SpecCore *)

\* the candidate of the example: the two tags, the category, no raw data
IsWorkedExample(p) ==
    /\ Len(p.signals) = 2
    /\ TagSet(p.signals) = {"self_taught", "bio_mentions_open_to"}
    /\ p.category = "Self-Taught Developer"
    /\ p.raw_data = {}

\* C24: scored under the default campaign and ranked with 0.45/0.25/0.30, the example
\* candidate gets trust_gap_score (0.8 + 0.3)/3.0, reachability_score 0.4/2.0,
\* relevance_score 0.9 and final_score their weighted sum, 0.485.
C24_WorkedExample ==
    (Ranked /\ campaign = "memex" /\ ctorWeights = NoDict) =>
        \A n \in Indices(prospects) :
            IsWorkedExample(prospects[n]) =>
                /\ 300 * prospects[n].trust_gap_score = (80 + 30) * ScoreOne
                /\ 200 * prospects[n].reachability_score = 40 * ScoreOne
                /\ 100 * prospects[n].relevance_score = 90 * ScoreOne
                /\ prospects[n].final_score
                      = 45 * prospects[n].trust_gap_score
                        + 25 * prospects[n].reachability_score
                        + 30 * prospects[n].relevance_score
                /\ 1000 * prospects[n].final_score = 485 * FinalOne

\* the example candidate, scored and ranked on its own
C24_Witness ==
    /\ phase = "ranked" /\ campaign = "memex" /\ ctorWeights = NoDict
    /\ Len(prospects) = 1
    /\ IsWorkedExample(prospects[1])
    /\ prospects[1].signals[1] = "bio_mentions_open_to"
    /\ prospects[1].final_score > 0

-----------------------------------------------------------------------------
(* Properties of the stored runs and candidates, checked under Spec and SpecWs *)

\* the stored candidates of a run
StoredOf(run_id) == {row \in dbProspects : row.run_id = run_id}

\* the (source, username) pairs of a list of candidates
Pairs(ps) == {<<ps[n].source, ps[n].username>> : n \in Indices(ps)}

\* the (source, username) pairs of a set of rows
RowPairs(rows) == {<<row.source, row.username>> : row \in rows}

\* a stored candidate without its outreach fields
SansOutreach(row) == [row EXCEPT !.outreach_message = "", !.deep_profile = Null]

\* the run is recorded with this status
HasStatus(r, status) == r \in DOMAIN dbRuns /\ dbRuns[r].status = status

\* the enabled adapters that are registered, in order
Registered(enabled) == SelectSeq(enabled, LAMBDA key : key \in ADAPTERS)

\* the adapters of a run log, in order
LogAdapters(log) == [n \in 1..Len(log) |-> log[n].adapter]

\* the three sub-scores of p are those of the default campaign
ScoredMemex(p) ==
    /\ p.trust_gap_score = score_trust_gap(p)
    /\ p.reachability_score = score_reachability(p)
    /\ p.relevance_score = score_relevance(p)

\* the three sub-scores of p are those of the gaming campaign
ScoredGaming(p) ==
    /\ p.trust_gap_score = score_gaming_influence(p)
    /\ p.reachability_score = score_gaming_reachability(p)
    /\ p.relevance_score = score_gaming_relevance(p)

\* p has not been scored
Unscored(p) ==
    /\ p.trust_gap_score = 0 /\ p.reachability_score = 0
    /\ p.relevance_score = 0 /\ p.final_score = 0

\* C22: once a run is 'done', no step changes a stored candidate of it in anything
\* but outreach_message and deep_profile.
C22_DoneCandidatesFrozen ==
    [][\A row \in dbProspects :
          HasStatus(row.run_id, "done") =>
              \E after \in dbProspects' : SansOutreach(after) = SansOutreach(row)]_vars

\* the execution has returned, by completing or by an exception
Ended(t) == pc[t] \in {"done", "aborted"}

\* C25: every run recorded 'running' reaches 'done', a failing progress callback or a
\* disconnected client notwithstanding: an execution that has returned, and whose
\* run id no other execution carries, leaves its run recorded 'done'.
C25_EndedRunIsDone ==
    \A t \in Tasks :
        (Ended(t) /\ OwnRunId(t)) => HasStatus(taskRunId[t], "done")

\* C26: a run recorded 'done' has one log entry for each registered enabled adapter,
\* in adapter order, an error entry where the fetch raised, and the candidates of
\* every adapter that returned are stored; what an execution has stored when it marks
\* the run carries its scores: a raising fetch stops neither the later fetches nor
\* scoring, saving and completion.
C26_FetchErrorIsLogged ==
    /\ \A r \in DOMAIN dbRuns :
          (dbRuns[r].status = "done") =>
              LET run == dbRuns[r]
              IN /\ LogAdapters(run.log) = Registered(run.adapters_used)
                 /\ \A n \in 1..Len(run.log) :
                       \/ run.log[n].kind = "error" /\ run.log[n].adapter \in MayRaise
                       \/ /\ run.log[n].kind = "found"
                          /\ \E found \in Fetch(run.log[n].adapter, "memex") :
                                /\ run.log[n].count = Len(found)
                                /\ Pairs(found) \subseteq RowPairs(StoredOf(r))
    /\ \A t \in Tasks :
          (pc[t] = "save_run") =>
              \A row \in StoredOf(taskRunId[t]) : ScoredMemex(row) /\ row.final_score > 0

\* a run is done whose first adapter raised and whose second adapter's two
\* candidates are stored
C26_Witness ==
    \E r \in DOMAIN dbRuns :
        /\ dbRuns[r].status = "done"
        /\ Len(dbRuns[r].log) = 2
        /\ dbRuns[r].log[1].kind = "error"
        /\ dbRuns[r].log[2] = [adapter |-> "github", kind |-> "found", count |-> 2]
        /\ RowPairs(StoredOf(r)) = {<<"github", "bob">>, <<"github", "alice">>}

\* C27: while an execution fetches, none of its candidates is scored; once it has
\* fetched every enabled adapter, its list is scored and ranked before it is saved;
\* when it marks the run, every candidate of the list is stored; and a run recorded
\* 'done' holds the candidates its log counts.
C27_StagesInOrder ==
    /\ \A t \in Tasks :
          /\ (pc[t] = "fetch") =>
                /\ taskIdx[t] <= Len(taskAdapters[t])
                /\ \A n \in Indices(taskProspects[t]) : Unscored(taskProspects[t][n])
          /\ (pc[t] \in {"save", "save_run"}) =>
                /\ taskIdx[t] > Len(taskAdapters[t])
                /\ LogAdapters(taskLog[t]) = Registered(taskAdapters[t])
          /\ (pc[t] = "save") =>
                /\ \A n \in Indices(taskProspects[t]) :
                      /\ ScoredMemex(taskProspects[t][n])
                      /\ taskProspects[t][n].final_score
                            = WeightedSum(taskProspects[t][n], usedWeights[t])
                /\ \A m, n \in Indices(taskProspects[t]) :
                      (m < n) => (taskProspects[t][m].final_score
                                     >= taskProspects[t][n].final_score)
          /\ (pc[t] = "save_run") =>
                Pairs(taskProspects[t]) \subseteq RowPairs(StoredOf(taskRunId[t]))
    /\ \A r \in DOMAIN dbRuns :
          (dbRuns[r].status = "done") =>
              \A n \in 1..Len(dbRuns[r].log) :
                  (dbRuns[r].log[n].count > 0) =>
                      \E row \in StoredOf(r) : row.source = dbRuns[r].log[n].adapter

\* an execution that fetched two adapters has saved its four candidates and is about
\* to mark the run
C27_Witness ==
    \E t \in Tasks :
        /\ pc[t] = "save_run"
        /\ Len(taskLog[t]) = 2
        /\ Len(taskProspects[t]) = 4
        /\ taskProspects[t][1].final_score > taskProspects[t][4].final_score
        /\ Cardinality(StoredOf(taskRunId[t])) = 3

\* C28: an execution whose adapters fetch under 'openarcade' has its candidates
\* scored with the gaming tables and ranked with the openarcade weights, and its run
\* is recorded with campaign 'openarcade'.
C28_OpenarcadeRunIsGaming ==
    \A t \in Tasks :
        (pc[t] \in {"save", "save_run"} /\ taskConfigs[t] = "openarcade") =>
            /\ dbRuns[taskRunId[t]].campaign = "openarcade"
            /\ \A n \in Indices(taskProspects[t]) :
                  /\ ScoredGaming(taskProspects[t][n])
                  /\ (taskOverrides[t] = NoDict /\ Undisturbed(t)
                        /\ startWeights[t] = RankerInit(NoDict)) =>
                        (taskProspects[t][n].final_score
                            = WeightedSum(taskProspects[t][n], OPENARCADE_WEIGHTS))

\* C29: once an execution has saved, its run holds one stored candidate for each
\* (source, username) pair of the ranked list, and no more.
C29_OneRowPerPair ==
    \A t \in Tasks :
        (pc[t] = "save_run") =>
            LET stored == StoredOf(taskRunId[t])
            IN /\ \A r1, r2 \in stored :
                     (r1.source = r2.source /\ r1.username = r2.username) => (r1 = r2)
               /\ Cardinality(stored) = Cardinality(Pairs(taskProspects[t]))

-----------------------------------------------------------------------------
(* The list of all candidates, checked under SpecDb *)

\* the list has been returned
AllDone == "all" \in statsDone

\* the stored rows of the pair of p
StoredOfPair(p) == SamePair(dbProspects, p)

\* C23: get_all_prospects returns one row for each stored (source, username) pair and
\* no other row, each a stored row with the highest final_score stored for its pair,
\* in non-increasing final_score order.
C23_OneBestRowPerPair ==
    AllDone =>
        /\ \A row \in dbProspects :
              Cardinality({n \in Indices(allProspects) :
                              /\ allProspects[n].source = row.source
                              /\ allProspects[n].username = row.username}) = 1
        /\ \A n \in Indices(allProspects) :
              /\ \E row \in StoredOfPair(allProspects[n]) :
                    /\ row.id = allProspects[n].id
                    /\ row.run_id = allProspects[n].run_id
                    /\ row.final_score = allProspects[n].final_score
              /\ \A row \in StoredOfPair(allProspects[n]) :
                    row.final_score <= allProspects[n].final_score
        /\ \A m, n \in Indices(allProspects) :
              (m < n) => (allProspects[m].final_score >= allProspects[n].final_score)

\* both pairs are stored in both runs, each with two different scores, and the list
\* holds the better row of each, the first from the later run
C23_Witness ==
    /\ AllDone
    /\ Cardinality(dbProspects) = 4
    /\ Len(allProspects) = 2
    /\ \A n \in Indices(allProspects) :
          \E row \in StoredOfPair(allProspects[n]) :
              row.final_score < allProspects[n].final_score
    /\ allProspects[1].run_id = 2
    /\ allProspects[1].final_score > allProspects[2].final_score

====
